---- MODULE Spec2Model ----
\* The VM run loop of the guest-address-space hypervisor (src/src/main.rs):
\* riscv64_main, aarch64_main and x86_64_main, the three compile-time
\* selected backends, each a startup sequence, a loop of
\* _run_guest / exit dispatch, and a post-loop path.
EXTENDS Integers, Sequences, FiniteSets, TLC

VARIABLES
    arch,       \* target_arch the binary was compiled for
    pc,         \* position of the host in main()
    ctx,        \* guest context (VmCpuRegisters / Vmcb) incl. trap registers
    exitPc,     \* guest PC the hardware reported at the last VM exit
    s2as,       \* second-stage address space: set of page mappings
    frames,     \* free 4 KiB host frames of the allocator
    console,    \* host console: sequence of lines / bytes written
    entries,    \* number of _run_guest calls made so far
    root,       \* translation root installed (hgatp / ttbr0_el1 / nCR3)
    shutdowns,  \* platform shutdown requests issued by main()
    tlbStale,   \* the translation structures changed since the last shootdown
    mapReq,     \* arguments of the last map / map_linear call of a fault handler
    loaded,     \* result of load_vm_image: "pending", "ok" or "err"
    cpuid_ecx,  \* ECX of CPUID leaf 0x8000_0001
    host,       \* x86_64 host state: EFER.SVME, VM_HSAVE_PA programmed, live
                \* Box allocations, the locals vmcb_pa / host_vmcb_pa and
                \* the arguments of the last _run_guest call
    gk,         \* the guest payload (gkernel): the function it runs, its
                \* arguments and the hypercalls it has issued
    xt          \* the build driver (xtask): command, architecture, steps done
                \* and exit status

vars == <<arch, pc, ctx, exitPc, s2as, frames, console, entries, root, shutdowns,
          tlbStale, mapReq, loaded, cpuid_ecx, host, gk, xt>>

\* ---------------------------------------------------------------- bounds
\* _run_guest calls explored per run
MaxEntries == 4
\* free host frames at boot
MaxFrames == 3
\* 4 KiB pages of the payload image /sbin/gkernel
PayloadPages == 1

\* ------------------------------------------------- 64-bit machine words
\* A u64/usize is <<h, m, l>>: bits 63..48, 47..24 and 23..0.
LimbBase == 4096 * 4096
TopBase == 256 * 256

Word(h, m, l) == <<h, m, l>>
ZeroWord == Word(0, 0, 0)
Small(n) == Word(0, 0, n)

\* w + k for a small k; release build (xtask passes --release): wraps at 2^64
WordAdd(w, k) ==
    LET l == w[3] + k
        m == w[2] + (l \div LimbBase)
        h == w[1] + (m \div LimbBase)
    IN  <<h % TopBase, m % LimbBase, l % LimbBase>>

\* a + b without wrap-around (used for range ends only)
WordSum(a, b) ==
    LET l == a[3] + b[3]
        m == a[2] + b[2] + (l \div LimbBase)
        h == a[1] + b[1] + (m \div LimbBase)
    IN  <<h, m % LimbBase, l % LimbBase>>

WordLe(a, b) ==
    \/ a[1] < b[1]
    \/ a[1] = b[1] /\ a[2] < b[2]
    \/ a[1] = b[1] /\ a[2] = b[2] /\ a[3] <= b[3]

\* w << 2
Shl2(w) ==
    LET l == w[3] * 4
        m == w[2] * 4 + (l \div LimbBase)
        h == w[1] * 4 + (m \div LimbBase)
    IN  <<h % TopBase, m % LimbBase, l % LimbBase>>

\* w >> 2
Shr2(w) ==
    <<w[1] \div 4,
      (w[1] % 4) * (LimbBase \div 4) + (w[2] \div 4),
      (w[2] % 4) * (LimbBase \div 4) + (w[3] \div 4)>>

\* w & !0xFFF
PageOf(w) == <<w[1], w[2], w[3] - (w[3] % 4096)>>

IsAligned4K(w) == w[3] % 4096 = 0

PAGE_SIZE_4K == 4096

Archs == {"riscv64", "aarch64", "x86_64"}

\* ------------------------------------------------------ program constants
\* VM entry point (guest physical / intermediate-physical address)
VM_ENTRY ==
    CASE arch = "riscv64" -> Word(0, \H80, \H200000)
      [] arch = "aarch64" -> Word(0, \H40, \H200000)
      [] arch = "x86_64"  -> Word(0, 0, \H10000)

\* axmm::AddrSpace::new_empty(base, size) of each backend
AspaceBase ==
    CASE arch = "riscv64" -> ZeroWord
      [] arch = "aarch64" -> Word(0, \H40, 0)
      [] arch = "x86_64"  -> VM_ENTRY

AspaceSize ==
    CASE arch = "riscv64" -> Word(\H7fff, \Hffffff, \Hfff000)
      [] arch = "aarch64" -> Word(0, 8, 0)
      [] arch = "x86_64"  -> Word(0, 1, 0)

\* PSCI SYSTEM_OFF function id, 0x84000008
PSCI_SYSTEM_OFF == Word(0, \H84, 8)

\* MappingFlags::READ | WRITE | EXECUTE | USER
FaultFlags == {"READ", "WRITE", "EXECUTE", "USER"}

\* SVM exit codes (x86_64/vmcb.rs)
VMEXIT_VMMCALL == 129
VMEXIT_NPF == 1024

\* lengths used to step the guest PC past a serviced hypercall
ECALL_LEN == 4
SVC_LEN == 4
\* (mutant: VMMCALL stepped like the 4-byte ecall / svc)
VMMCALL_LEN_AsEcall == 3 + 1
VMMCALL_LEN == 3

\* ------------------------------------------------- second-stage space
\* AddrSpace::contains_range(start, size)
ContainsRange(start, size) ==
    /\ WordLe(AspaceBase, start)
    /\ WordLe(WordSum(start, size), WordSum(AspaceBase, AspaceSize))

MappedPages(as) == {e.page : e \in as}

\* Whether AddrSpace::map / map_linear of one page at `start` returns Ok:
\* the start must be 4 KiB aligned, the range inside the address space and
\* not overlapping an existing area.
MapOk(as, start) ==
    /\ IsAligned4K(start)
    /\ ContainsRange(start, Small(PAGE_SIZE_4K))
    /\ start \notin MappedPages(as)

\* (mutant: a call for a page that is mapped replaces its entry)
MapPage_Remaps(as, start, hpa, flags) ==
    IF IsAligned4K(start) /\ ContainsRange(start, Small(PAGE_SIZE_4K))
    THEN {e \in as : e.page # start}
           \cup {[page |-> start, hpa |-> hpa, flags |-> flags]}
    ELSE as

\* (mutant: a successful call drops the mappings made before it)
MapPage_DropsOthers(as, start, hpa, flags) ==
    IF MapOk(as, start)
    THEN {[page |-> start, hpa |-> hpa, flags |-> flags]}
    ELSE as

\* The address space after the call; an Err leaves it as it was.
MapPage(as, start, hpa, flags) ==
    IF MapOk(as, start)
    THEN as \cup {[page |-> start, hpa |-> hpa, flags |-> flags]}
    ELSE as

\* Physical address of the n-th frame of the host frame allocator.
HostFrame(n) == Word(0, \H90, n * PAGE_SIZE_4K)

\* ------------------------------------------------------------- console
Line(msg, val) == [kind |-> "println", msg |-> msg, val |-> val]
Byte(c) == [kind |-> "byte", msg |-> "", val |-> c]
PanicLine(msg) == [kind |-> "panic", msg |-> msg, val |-> ZeroWord]

\* panic!(msg): the message goes to the console and main() never resumes
Panic(out, msg) ==
    /\ pc' = "panicked"
    /\ console' = Append(out, PanicLine(msg))

\* ------------------------------------------------------- guest context
\* VmCpuRegisters::default() / Vmcb::new(): all zero
DefaultCtx ==
    CASE arch = "riscv64" ->
           [sepc |-> ZeroWord, a0 |-> ZeroWord, a7 |-> ZeroWord,
            hstatus |-> {}, sstatus |-> {},
            scause |-> [exception |-> TRUE, code |-> 0],
            htval |-> ZeroWord, stval |-> ZeroWord]
      [] arch = "aarch64" ->
           [elr |-> ZeroWord, spsr |-> 0, x0 |-> ZeroWord, x8 |-> ZeroWord,
            esr |-> ZeroWord, far |-> ZeroWord]
      [] arch = "x86_64" ->
           [rip |-> ZeroWord, rax |-> ZeroWord, cs_base |-> ZeroWord,
            cs_selector |-> 0, rflags |-> 0, efer |-> {}, cr0 |-> 0,
            asid |-> 0, np_enable |-> FALSE,
            exit_code |-> 0, exit_info1 |-> ZeroWord, exit_info2 |-> ZeroWord]

\* guest program counter held in the context: sepc / elr / rip
GuestPc(c) ==
    CASE arch = "riscv64" -> c.sepc
      [] arch = "aarch64" -> c.elr
      [] arch = "x86_64"  -> c.rip

\* guest general-purpose registers held in the context
GuestGprs(c) ==
    CASE arch = "riscv64" -> <<c.a0, c.a7>>
      [] arch = "aarch64" -> <<c.x0, c.x8>>
      [] arch = "x86_64"  -> <<c.rax>>

\* --------------------------------------------------------------- loader
\* load_vm_image("/sbin/gkernel", &mut aspace): maps the payload's pages at
\* VM_ENTRY on freshly allocated frames and copies the image into them.
LoaderPages == {WordAdd(VM_ENTRY, i * PAGE_SIZE_4K) : i \in 0 .. PayloadPages - 1}

LoadVmImage(as, free) ==
    as \cup {[page |-> WordAdd(VM_ENTRY, i * PAGE_SIZE_4K),
              hpa |-> HostFrame(free - i),
              flags |-> FaultFlags] : i \in 0 .. PayloadPages - 1}

\* The loader can succeed only if the image fits the address space and the
\* allocator has a frame for each page; the file read may fail at any time.
LoadCanSucceed(free) ==
    /\ free >= PayloadPages
    /\ \A p \in LoaderPages : ContainsRange(p, Small(PAGE_SIZE_4K))

\* Kernel mapping that copy_mappings_from(kernel_aspace) brings into the
\* RISC-V address space (kernel image, linear map of riscv64-qemu-virt).
KernelMappings ==
    {[page |-> Word(\Hffff, \Hffc080, \H200000),
      hpa |-> Word(0, \H80, \H200000),
      flags |-> {"READ", "WRITE", "EXECUTE"}]}

\* No mapping request made yet.
NoMapReq == [start |-> ZeroWord, size |-> 0]

\* map / map_linear called for `size` bytes at `start`
MapReq(start, size) == [start |-> start, size |-> size]

\* ECX values CPUID leaf 0x8000_0001 may return (bit 2 is SVM).
CpuidEcxValues == {0, 2, 4}

\* (mutant: the feature test looks at bit 1)
SvmSupported_WrongBit(ecx) == (ecx \div 2) % 2 = 1

\* ecx & (1 << 2) != 0
SvmSupported(ecx) == (ecx \div 4) % 2 = 1

\* (mutant: the shootdown is left out)
Shootdown_LeftOut(stale) == stale

\* hfence.gvma (RISC-V) / tlbi vmalle1is; dsb ish; isb (AArch64): nothing
\* stale is left behind
Shootdown(stale) == FALSE

\* Physical address of the page-aligned heap allocation behind a Box of
\* x86_64_main (virt_to_phys_ptr of its first byte).
BoxPa(name) ==
    CASE name = "host_save" -> Word(0, \HA0, 0)
      [] name = "host_vmcb" -> Word(0, \HA0, \H1000)
      [] name = "iopm"      -> Word(0, \HA0, \H2000)
      [] name = "msrpm"     -> Word(0, \HA0, \H5000)
      [] name = "vmcb"      -> Word(0, \HA0, \H7000)

Boxed(names) == {[name |-> n, pa |-> BoxPa(n)] : n \in names}

\* (mutant: the host-save page is not bound to a local and is freed at the
\* end of its statement)
HostBoxes_SaveAreaDropped == Boxed({"host_vmcb", "iopm", "msrpm"})

\* let host_save / host_vmcb / iopm / msrpm = Box::new(..): owned by locals
\* of x86_64_main, which holds them to the end of its body
HostBoxes == Boxed({"host_save", "host_vmcb", "iopm", "msrpm"})

\* let mut vmcb = Box::new(Vmcb::new())
VmcbBox == Boxed({"vmcb"})

\* The payload has not been started.
GkIdle == [fn |-> "idle", byte |-> 0, val |-> ZeroWord, i |-> 0, calls |-> <<>>]

\* The build driver has not been started.
XtIdle ==
    [cmd |-> "none", arch |-> "none", at |-> "none", done |-> <<>>,
     status |-> 0, failed |-> "none", err |-> "none"]

\* ----------------------------------------------------------------- Init
Init ==
    /\ arch \in Archs
    /\ pc = "start"
    /\ ctx = DefaultCtx
    /\ exitPc = ZeroWord
    /\ s2as = {}
    /\ frames = MaxFrames
    /\ console = <<>>
    /\ entries = 0
    /\ root = "host"
    /\ shutdowns = 0
    /\ tlbStale = FALSE
    /\ mapReq = NoMapReq
    /\ loaded = "pending"
    /\ cpuid_ecx \in (IF arch = "x86_64" THEN CpuidEcxValues ELSE {0})
    /\ host = [svme |-> FALSE, hsave |-> FALSE, boxes |-> {},
               vmcb_pa |-> ZeroWord, host_vmcb_pa |-> ZeroWord, run |-> <<>>]
    /\ gk = GkIdle
    /\ xt = XtIdle

\* -------------------------------------------------------------- startup
\* prepare_guest_context: hstatus.SPV = Guest, hstatus.SPVP = Supervisor,
\* sstatus.SPP = Supervisor, sepc = VM_ENTRY
RiscvEntryCtx ==
    [DefaultCtx EXCEPT !.hstatus = {"spv", "spvp"},
                       !.sstatus = {"spp"},
                       !.sepc = VM_ENTRY]

\* ctx.guest.elr = VM_ENTRY; ctx.guest.spsr = 0x3C0 (EL0t, DAIF masked)
Aarch64EntryCtx ==
    [DefaultCtx EXCEPT !.elr = VM_ENTRY, !.spsr = \H3C0]

\* (mutant: RIP is set to VM_ENTRY although CS.base already holds it)
X86EntryVmcb_RipIsEntry ==
    [DefaultCtx EXCEPT !.asid = 1, !.np_enable = TRUE,
                       !.cs_selector = \H1000,
                       !.cs_base = VM_ENTRY,
                       !.efer = {"SVME"}, !.cr0 = \H10,
                       !.rflags = 2, !.rip = VM_ENTRY]

\* the VMCB main builds: real mode, CS.selector = VM_ENTRY >> 4,
\* CS.base = VM_ENTRY, RIP = 0
X86EntryVmcb ==
    [DefaultCtx EXCEPT !.asid = 1, !.np_enable = TRUE,
                       !.cs_selector = \H1000,
                       !.cs_base = VM_ENTRY,
                       !.efer = {"SVME"}, !.cr0 = \H10,
                       !.rflags = 2, !.rip = ZeroWord]

\* riscv64_main up to the run loop
Riscv64Start ==
    /\ arch = "riscv64"
    /\ pc = "start"
    /\ \E ok \in BOOLEAN :
         LET out == <<Line("Hypervisor ...", ZeroWord)>> IN
         IF ok /\ LoadCanSucceed(frames)
         THEN /\ s2as' = LoadVmImage(KernelMappings, frames)
              /\ frames' = frames - PayloadPages
              /\ loaded' = "ok"
              /\ ctx' = RiscvEntryCtx
              /\ root' = "guest"
              /\ tlbStale' = Shootdown(TRUE)
              /\ console' = Append(out, Line("Entering VM run loop...", ZeroWord))
              /\ pc' = "enter"
         ELSE /\ loaded' = "err"
              /\ Panic(out, "Cannot load app!")
              /\ UNCHANGED <<s2as, frames, ctx, root, tlbStale>>
    /\ UNCHANGED <<arch, exitPc, entries, shutdowns, mapReq, cpuid_ecx, host, gk, xt>>

\* (mutant: the result of load_vm_image is dropped and start-up goes on)
Aarch64Start_IgnoresLoaderError ==
    /\ arch = "aarch64"
    /\ pc = "start"
    /\ \E ok \in BOOLEAN :
         LET out == <<Line("Hypervisor ...", ZeroWord)>> IN
         /\ IF ok /\ LoadCanSucceed(frames)
            THEN /\ s2as' = LoadVmImage({}, frames)
                 /\ frames' = frames - PayloadPages
                 /\ loaded' = "ok"
            ELSE /\ loaded' = "err"
                 /\ UNCHANGED <<s2as, frames>>
         /\ root' = "guest"
         /\ tlbStale' = Shootdown(TRUE)
         /\ ctx' = Aarch64EntryCtx
         /\ console' = Append(out, Line("Entering VM run loop...", ZeroWord))
         /\ pc' = "enter"
    /\ UNCHANGED <<arch, exitPc, entries, shutdowns, mapReq, cpuid_ecx, host, gk, xt>>

\* aarch64_main up to the run loop
Aarch64Start ==
    /\ arch = "aarch64"
    /\ pc = "start"
    /\ \E ok \in BOOLEAN :
         LET out == <<Line("Hypervisor ...", ZeroWord)>> IN
         IF ok /\ LoadCanSucceed(frames)
         THEN /\ s2as' = LoadVmImage({}, frames)
              /\ frames' = frames - PayloadPages
              /\ loaded' = "ok"
              /\ root' = "guest"
              /\ tlbStale' = Shootdown(TRUE)
              /\ ctx' = Aarch64EntryCtx
              /\ console' = Append(out, Line("Entering VM run loop...", ZeroWord))
              /\ pc' = "enter"
         ELSE /\ loaded' = "err"
              /\ Panic(out, "Cannot load app!")
              /\ UNCHANGED <<s2as, frames, ctx, root, tlbStale>>
    /\ UNCHANGED <<arch, exitPc, entries, shutdowns, mapReq, cpuid_ecx, host, gk, xt>>

\* x86_64_main up to the run loop
X86Start ==
    /\ arch = "x86_64"
    /\ pc = "start"
    /\ \E ok \in BOOLEAN :
         LET out == <<Line("Hypervisor ...", ZeroWord)>> IN
         IF ~SvmSupported(cpuid_ecx)
         THEN /\ Panic(out, "CPU does not support AMD SVM!")
              /\ UNCHANGED <<s2as, frames, ctx, root, tlbStale, loaded, host>>
         ELSE /\ host' = [host EXCEPT
                            !.svme = TRUE, !.hsave = TRUE,
                            !.host_vmcb_pa = BoxPa("host_vmcb"),
                            !.boxes = IF ok /\ LoadCanSucceed(frames)
                                      THEN HostBoxes \cup VmcbBox
                                      ELSE HostBoxes,
                            !.vmcb_pa = IF ok /\ LoadCanSucceed(frames)
                                        THEN BoxPa("vmcb")
                                        ELSE ZeroWord]
              /\ IF ok /\ LoadCanSucceed(frames)
                 THEN /\ s2as' = LoadVmImage({}, frames)
                      /\ frames' = frames - PayloadPages
                      /\ loaded' = "ok"
                      /\ root' = "guest"
                      /\ tlbStale' = TRUE
                      /\ ctx' = X86EntryVmcb
                      /\ console' = out \o <<Line("paddr: PA:", ZeroWord),
                                             Line("Entering VM run loop...", ZeroWord)>>
                      /\ pc' = "enter"
                 ELSE /\ loaded' = "err"
                      /\ Panic(out, "Cannot load app!")
                      /\ UNCHANGED <<s2as, frames, ctx, root, tlbStale>>
    /\ UNCHANGED <<arch, exitPc, entries, shutdowns, mapReq, cpuid_ecx, gk, xt>>

\* -------------------------------------------------------- exit decoding
\* (mutant: the exception class is taken from bits 29..24)
Ec_WrongShift(esr) == esr[2] % 64

\* ec = (esr >> 26) & 0x3F
Ec(esr) == (esr[2] \div 4) % 64

\* fault_addr = (htval << 2) | (stval_val & 0x3); htval << 2 has its two
\* low bits clear, so the OR is an addition
RiscvFaultAddr(c) == WordAdd(Shl2(c.htval), c.stval[3] % 4)

IsHypercallExit(c) ==
    CASE arch = "riscv64" -> c.scause.exception /\ c.scause.code = 10
      [] arch = "aarch64" -> Ec(c.esr) = \H15
      [] arch = "x86_64"  -> c.exit_code = VMEXIT_VMMCALL

IsPageFaultExit(c) ==
    CASE arch = "riscv64" -> c.scause.exception /\ c.scause.code \in {21, 23}
      [] arch = "aarch64" -> Ec(c.esr) \in {\H24, \H25}
      [] arch = "x86_64"  -> c.exit_code = VMEXIT_NPF

\* the raw fault address the handler reads: fault_addr / far / exit_info2
FaultAddr(c) ==
    CASE arch = "riscv64" -> RiscvFaultAddr(c)
      [] arch = "aarch64" -> c.far
      [] arch = "x86_64"  -> c.exit_info2

\* ------------------------------------------------------------ the guest
\* Guest-physical addresses the guest may access.
GuestAddrs ==
    CASE arch = "riscv64" ->
           {Word(0, \H22, 0), Word(0, \H22, 4), Word(0, \H22, 1), Word(0, \H22, \H1000),
            Word(\H7fff, \Hffffff, \Hfff000)}
      [] arch = "aarch64" ->
           {Word(0, \H40, \H300000), Word(0, \H40, \H300008), Word(0, \H40, \H301000),
            Word(0, 4, 0)}
      [] arch = "x86_64" ->
           {Word(0, 0, \H20000), Word(0, 0, \H20008), Word(0, 0, \H21000),
            Word(0, \Hff, \Hc00000)}

\* Addresses of misaligned accesses of the AArch64 guest: these raise a data
\* abort (DFSC 0x21, alignment fault) whether or not the page is mapped.
MisalignedAddrs == {WordAdd(VM_ENTRY, 2)}

\* A fault that mapping the page resolves: on AArch64 a data abort whose
\* DFSC (ESR bits 5..0) is a translation fault (0b0001xx).
IsTranslationFault(c) ==
    CASE arch = "aarch64" -> (c.esr[3] % 64) \in 4 .. 7
      [] OTHER -> TRUE

\* Last instruction slot of the 64-bit address space.
TopPc(len) == Word(TopBase - 1, LimbBase - 1, LimbBase - len)

\* Guest PCs at which a guest entered at p may exit: at p itself, a few
\* instructions further on, or at the top of the address space.
ExitPcs(p) ==
    CASE arch = "riscv64" -> {p, WordAdd(p, 8), TopPc(4)}
      [] arch = "aarch64" -> {p, WordAdd(p, 8), TopPc(4)}
      [] arch = "x86_64"  -> {p, WordAdd(p, 8), TopPc(3)}

\* Guest register values at a hypercall: <<function register, argument>>.
\*   riscv64: <<a7, a0>>   aarch64: <<x8, x0>>   x86_64: <<rax>>
HypercallRegs ==
    CASE arch = "riscv64" ->
           {<<Small(1), Small(65)>>, <<Small(8), ZeroWord>>,
            <<Word(0, \H53, \H525354), ZeroWord>>, <<Small(\HDEAD), ZeroWord>>}
      [] arch = "aarch64" ->
           {<<Small(1), Small(65)>>, <<Small(2), Small(10)>>,
            <<Small(\HDEAD), Small(7)>>, <<Small(\HDEAD), PSCI_SYSTEM_OFF>>}
      [] arch = "x86_64" ->
           {<<Small(\H4101)>>, <<PSCI_SYSTEM_OFF>>, <<Small(\HDEAD)>>}

\* Exit states the hardware can report for a guest that exits at p with the
\* second-stage mappings as: a hypercall, a fault on a page that is not
\* mapped, an alignment fault (AArch64), or a trap of another kind.
GuestExits(c, p, as) ==
    CASE arch = "riscv64" ->
           {[c EXCEPT !.sepc = p, !.scause = [exception |-> TRUE, code |-> 10],
                      !.a7 = r[1], !.a0 = r[2]] : r \in HypercallRegs}
           \cup
           {[c EXCEPT !.sepc = p, !.scause = [exception |-> TRUE, code |-> k[1]],
                      !.htval = Shr2(k[2]), !.stval = k[2]] :
              k \in {x \in {21, 23} \X GuestAddrs : PageOf(x[2]) \notin MappedPages(as)}}
           \cup
           {[c EXCEPT !.sepc = p, !.scause = sc, !.stval = ZeroWord] :
              sc \in {[exception |-> TRUE, code |-> 20], [exception |-> FALSE, code |-> 5]}}
      [] arch = "aarch64" ->
           {[c EXCEPT !.elr = p, !.esr = Word(0, \H56, 0),
                      !.x8 = r[1], !.x0 = r[2]] : r \in HypercallRegs}
           \cup
           {[c EXCEPT !.elr = p, !.esr = k[1], !.far = k[2]] :
              k \in {x \in {Word(0, \H92, \H46), Word(0, \H96, \H46)} \X GuestAddrs :
                       PageOf(x[2]) \notin MappedPages(as)}}
           \cup
           {[c EXCEPT !.elr = p, !.esr = Word(0, \H92, \H21), !.far = a] :
              a \in MisalignedAddrs}
           \cup
           {[c EXCEPT !.elr = p, !.esr = Word(0, \H82, 6), !.far = p]}
      [] arch = "x86_64" ->
           {[c EXCEPT !.rip = p, !.exit_code = VMEXIT_VMMCALL,
                      !.rax = r[1]] : r \in HypercallRegs}
           \cup
           {[c EXCEPT !.rip = p, !.exit_code = VMEXIT_NPF,
                      !.exit_info1 = Small(4), !.exit_info2 = a] :
              a \in {x \in GuestAddrs : PageOf(x) \notin MappedPages(as)}}
           \cup
           {[c EXCEPT !.rip = p, !.exit_code = \H7F]}

\* The guest is re-entered at the instruction that faulted and the cause of
\* the fault is still there (the page is still not mapped, or the fault was
\* not a translation fault): the access faults again, with the same report.
Refault ==
    /\ entries > 0
    /\ IsPageFaultExit(ctx)
    /\ GuestPc(ctx) = exitPc
    /\ \/ PageOf(FaultAddr(ctx)) \notin MappedPages(s2as)
       \/ ~IsTranslationFault(ctx)

\* _run_guest(&mut ctx), on x86_64 _run_guest(vmcb_pa, host_vmcb_pa): enter
\* the guest and return at its next VM exit
RunGuest ==
    /\ pc = "enter"
    /\ entries < MaxEntries
    /\ IF Refault
       THEN UNCHANGED <<ctx, exitPc>>
       ELSE \E p \in ExitPcs(GuestPc(ctx)) :
              \E c \in GuestExits(ctx, p, s2as) :
                 /\ ctx' = c
                 /\ exitPc' = p
    /\ host' = IF arch = "x86_64"
               THEN [host EXCEPT !.run = <<host.vmcb_pa, host.host_vmcb_pa>>]
               ELSE host
    /\ entries' = entries + 1
    /\ pc' = "exited"
    /\ UNCHANGED <<arch, s2as, frames, console, root, shutdowns, tlbStale, mapReq, loaded, cpuid_ecx, gk, xt>>

\* ------------------------------------------------------ riscv64 dispatch
\* SBI extension ids SbiMessage::from_regs accepts besides the reset ones
\* (legacy putchar 0x01, base 0x10).
SbiOtherExt == {Small(1), Small(\H10)}

\* SBI reset: legacy shutdown a7 = 8, SRST a7 = 0x53525354
SbiResetExt == {Small(8), Word(0, \H53, \H525354)}

\* SbiMessage::from_regs(a_regs).ok(): the message kind, "None" on Err
SbiFromRegs(a7) ==
    IF a7 \in SbiResetExt THEN "Reset"
    ELSE IF a7 \in SbiOtherExt THEN "Other"
    ELSE "None"

\* scause: exception, code 10 (VirtualSupervisorEnvCall)
RiscvEcall ==
    /\ arch = "riscv64"
    /\ pc = "exited"
    /\ ctx.scause.exception /\ ctx.scause.code = 10
    /\ LET msg == SbiFromRegs(ctx.a7) IN
       CASE msg = "Reset" ->
              /\ console' = console \o <<Line("VmExit Reason: VSuperEcall: Reset", ctx.a7),
                                         Line("Shutdown vm normally!", ZeroWord)>>
              /\ pc' = "post"
              /\ UNCHANGED ctx
         [] msg = "Other" ->
              /\ ctx' = [ctx EXCEPT !.sepc = WordAdd(ctx.sepc, ECALL_LEN)]
              /\ pc' = "enter"
              /\ UNCHANGED console
         [] msg = "None" ->
              /\ Panic(console, "bad sbi message!")
              /\ UNCHANGED ctx
    /\ UNCHANGED <<arch, exitPc, s2as, frames, entries, root, shutdowns, tlbStale, mapReq, loaded, cpuid_ecx, host, gk, xt>>

\* (mutant: the page is backed by a frame of the allocator, as on the other
\* backends, not by the physical page of the same address)
RiscvGuestPageFault_AllocatesFrame ==
    /\ arch = "riscv64"
    /\ pc = "exited"
    /\ ~(ctx.scause.exception /\ ctx.scause.code = 10)
    /\ ctx.scause.exception /\ ctx.scause.code \in {21, 23}
    /\ LET fault_addr == RiscvFaultAddr(ctx) IN
         /\ console' = Append(console, Line("VmExit: NestedPageFault addr=", fault_addr))
         /\ mapReq' = MapReq(fault_addr, 4096)
         /\ s2as' = MapPage(s2as, fault_addr, HostFrame(frames), FaultFlags)
         /\ tlbStale' = Shootdown(tlbStale \/ MapOk(s2as, fault_addr))
    /\ pc' = "enter"
    /\ UNCHANGED <<arch, ctx, exitPc, frames, entries, root, shutdowns, loaded, cpuid_ecx, host, gk, xt>>

\* scause: exception, code 21 (LoadGuestPageFault) or 23 (StoreGuestPageFault)
RiscvGuestPageFault ==
    /\ arch = "riscv64"
    /\ pc = "exited"
    /\ ~(ctx.scause.exception /\ ctx.scause.code = 10)
    /\ ctx.scause.exception /\ ctx.scause.code \in {21, 23}
    /\ LET fault_addr == RiscvFaultAddr(ctx) IN
         /\ console' = Append(console, Line("VmExit: NestedPageFault addr=", fault_addr))
         /\ mapReq' = MapReq(fault_addr, 4096)
         /\ s2as' = MapPage(s2as, fault_addr, fault_addr, FaultFlags)
         /\ tlbStale' = Shootdown(tlbStale \/ MapOk(s2as, fault_addr))
    /\ pc' = "enter"
    /\ UNCHANGED <<arch, ctx, exitPc, frames, entries, root, shutdowns, loaded, cpuid_ecx, host, gk, xt>>

\* any other scause
RiscvUnhandledTrap ==
    /\ arch = "riscv64"
    /\ pc = "exited"
    /\ ~(ctx.scause.exception /\ ctx.scause.code = 10)
    /\ ~(ctx.scause.exception /\ ctx.scause.code \in {21, 23})
    /\ Panic(console, "Unhandled trap")
    /\ UNCHANGED <<arch, ctx, exitPc, s2as, frames, entries, root, shutdowns, tlbStale, mapReq, loaded, cpuid_ecx, host, gk, xt>>

\* after the loop: panic!("Hypervisor ok!")
RiscvPostLoop ==
    /\ arch = "riscv64"
    /\ pc = "post"
    /\ Panic(console, "Hypervisor ok!")
    /\ UNCHANGED <<arch, ctx, exitPc, s2as, frames, entries, root, shutdowns, tlbStale, mapReq, loaded, cpuid_ecx, host, gk, xt>>

\* ------------------------------------------------------ aarch64 dispatch
\* EC 0x15: SVC from EL0
Aarch64Svc ==
    /\ arch = "aarch64"
    /\ pc = "exited"
    /\ Ec(ctx.esr) = \H15
    /\ LET fid == ctx.x0 IN
       IF fid = PSCI_SYSTEM_OFF
       THEN /\ console' = console \o <<Line("VmExit Reason: SVC: PSCI SYSTEM_OFF", ZeroWord),
                                       Line("Shutdown vm normally!", ZeroWord)>>
            /\ pc' = "post"
            /\ UNCHANGED ctx
       ELSE /\ console' = Append(console, Line("VmExit: SVC unknown function", fid))
            /\ ctx' = [ctx EXCEPT !.elr = WordAdd(ctx.elr, SVC_LEN)]
            /\ pc' = "enter"
    /\ UNCHANGED <<arch, exitPc, s2as, frames, entries, root, shutdowns, tlbStale, mapReq, loaded, cpuid_ecx, host, gk, xt>>

\* (mutant: the data-abort handler steps elr past the faulting instruction)
Aarch64DataAbort_SkipsInstruction ==
    /\ arch = "aarch64"
    /\ pc = "exited"
    /\ Ec(ctx.esr) \in {\H24, \H25}
    /\ LET far == ctx.far
           page_addr == PageOf(far)
           out == Append(console, Line("VmExit: DataAbort addr=", far))
       IN  IF frames = 0
           THEN /\ Panic(out, "alloc page for NPF")
                /\ UNCHANGED <<s2as, frames, ctx, tlbStale, mapReq>>
           ELSE /\ console' = out
                /\ mapReq' = MapReq(page_addr, PAGE_SIZE_4K)
                /\ s2as' = MapPage(s2as, page_addr, HostFrame(frames), FaultFlags)
                /\ tlbStale' = Shootdown(tlbStale \/ MapOk(s2as, page_addr))
                /\ frames' = IF MapOk(s2as, page_addr) THEN frames - 1 ELSE frames
                /\ ctx' = [ctx EXCEPT !.elr = WordAdd(ctx.elr, SVC_LEN)]
                /\ pc' = "enter"
    /\ UNCHANGED <<arch, exitPc, entries, root, shutdowns, loaded, cpuid_ecx, host, gk, xt>>

\* EC 0x24 | 0x25: data abort
Aarch64DataAbort ==
    /\ arch = "aarch64"
    /\ pc = "exited"
    /\ Ec(ctx.esr) \in {\H24, \H25}
    /\ LET far == ctx.far
           page_addr == PageOf(far)
           out == Append(console, Line("VmExit: DataAbort addr=", far))
       IN  IF frames = 0
           THEN /\ Panic(out, "alloc page for NPF")
                /\ UNCHANGED <<s2as, frames, tlbStale, mapReq>>
           ELSE /\ console' = out
                /\ mapReq' = MapReq(page_addr, PAGE_SIZE_4K)
                /\ s2as' = MapPage(s2as, page_addr, HostFrame(frames), FaultFlags)
                /\ tlbStale' = Shootdown(tlbStale \/ MapOk(s2as, page_addr))
                /\ frames' = IF MapOk(s2as, page_addr) THEN frames - 1 ELSE frames
                /\ pc' = "enter"
    /\ UNCHANGED <<arch, ctx, exitPc, entries, root, shutdowns, loaded, cpuid_ecx, host, gk, xt>>

\* any other EC
Aarch64UnhandledTrap ==
    /\ arch = "aarch64"
    /\ pc = "exited"
    /\ Ec(ctx.esr) \notin {\H15, \H24, \H25}
    /\ console' = Append(console, Line("Unhandled trap: EC=", Small(Ec(ctx.esr))))
    /\ pc' = "post"
    /\ UNCHANGED <<arch, ctx, exitPc, s2as, frames, entries, root, shutdowns, tlbStale, mapReq, loaded, cpuid_ecx, host, gk, xt>>

\* (mutant: the platform is shut down with the guest root still in TTBR0_EL1)
Aarch64PostLoop_NoRestore ==
    /\ arch = "aarch64"
    /\ pc = "post"
    /\ console' = Append(console, Line("Hypervisor ok!", ZeroWord))
    /\ shutdowns' = shutdowns + 1
    /\ pc' = "off"
    /\ UNCHANGED <<arch, ctx, exitPc, s2as, frames, entries, root, tlbStale,
                   mapReq, loaded, cpuid_ecx, host, gk, xt>>

\* after the loop: restore TTBR0_EL1, "Hypervisor ok!", PSCI SYSTEM_OFF by smc
Aarch64PostLoop ==
    /\ arch = "aarch64"
    /\ pc = "post"
    /\ root' = "host"
    /\ tlbStale' = Shootdown(TRUE)
    /\ console' = Append(console, Line("Hypervisor ok!", ZeroWord))
    /\ shutdowns' = shutdowns + 1
    /\ pc' = "off"
    /\ UNCHANGED <<arch, ctx, exitPc, s2as, frames, entries, mapReq, loaded, cpuid_ecx, host, gk, xt>>

\* ------------------------------------------------------- x86_64 dispatch
\* VMEXIT_VMMCALL
X86Vmmcall ==
    /\ arch = "x86_64"
    /\ pc = "exited"
    /\ ctx.exit_code = VMEXIT_VMMCALL
    /\ LET guest_rax == ctx.rax IN
       IF guest_rax = PSCI_SYSTEM_OFF
       THEN /\ console' = console \o <<Line("VmExit Reason: VMMCALL", ZeroWord),
                                       Line("Shutdown vm normally!", ZeroWord)>>
            /\ pc' = "post"
            /\ UNCHANGED ctx
       ELSE /\ console' = Append(console, Line("VmExit: VMMCALL unknown function", guest_rax))
            /\ ctx' = [ctx EXCEPT !.rip = WordAdd(ctx.rip, VMMCALL_LEN)]
            /\ pc' = "enter"
    /\ UNCHANGED <<arch, exitPc, s2as, frames, entries, root, shutdowns, tlbStale, mapReq, loaded, cpuid_ecx, host, gk, xt>>

\* (mutant: the NPF handler clobbers the guest's rax in the VMCB)
X86Npf_ClobbersRax ==
    /\ arch = "x86_64"
    /\ pc = "exited"
    /\ ctx.exit_code = VMEXIT_NPF
    /\ LET fault_addr == ctx.exit_info2
           page_addr == PageOf(fault_addr)
           out == Append(console, Line("VmExit: NPF addr=", fault_addr))
       IN  IF frames = 0
           THEN /\ Panic(out, "alloc page for NPF")
                /\ UNCHANGED <<s2as, frames, ctx, tlbStale, mapReq>>
           ELSE /\ console' = out
                /\ mapReq' = MapReq(page_addr, PAGE_SIZE_4K)
                /\ s2as' = MapPage(s2as, page_addr, HostFrame(frames), FaultFlags)
                /\ tlbStale' = (tlbStale \/ MapOk(s2as, page_addr))
                /\ frames' = IF MapOk(s2as, page_addr) THEN frames - 1 ELSE frames
                /\ ctx' = [ctx EXCEPT !.rax = fault_addr]
                /\ pc' = "enter"
    /\ UNCHANGED <<arch, exitPc, entries, root, shutdowns, loaded, cpuid_ecx, host, gk, xt>>

\* VMEXIT_NPF
X86Npf ==
    /\ arch = "x86_64"
    /\ pc = "exited"
    /\ ctx.exit_code = VMEXIT_NPF
    /\ LET fault_addr == ctx.exit_info2
           page_addr == PageOf(fault_addr)
           out == Append(console, Line("VmExit: NPF addr=", fault_addr))
       IN  IF frames = 0
           THEN /\ Panic(out, "alloc page for NPF")
                /\ UNCHANGED <<s2as, frames, tlbStale, mapReq>>
           ELSE /\ console' = out
                /\ mapReq' = MapReq(page_addr, PAGE_SIZE_4K)
                /\ s2as' = MapPage(s2as, page_addr, HostFrame(frames), FaultFlags)
                /\ tlbStale' = (tlbStale \/ MapOk(s2as, page_addr))
                /\ frames' = IF MapOk(s2as, page_addr) THEN frames - 1 ELSE frames
                /\ pc' = "enter"
    /\ UNCHANGED <<arch, ctx, exitPc, entries, root, shutdowns, loaded, cpuid_ecx, host, gk, xt>>

\* any other exit code
X86UnexpectedVmexit ==
    /\ arch = "x86_64"
    /\ pc = "exited"
    /\ ctx.exit_code \notin {VMEXIT_VMMCALL, VMEXIT_NPF}
    /\ console' = Append(console, Line("Unexpected VMEXIT: exit_code=", Small(ctx.exit_code)))
    /\ pc' = "post"
    /\ UNCHANGED <<arch, ctx, exitPc, s2as, frames, entries, root, shutdowns, tlbStale, mapReq, loaded, cpuid_ecx, host, gk, xt>>

\* after the loop: "Hypervisor ok!", ACPI shutdown by `out 0x604, 0x2000`.
\* The asm block is not noreturn: the platform either powers off at the
\* `out` or execution falls through to the panic that follows.
X86PostLoop ==
    /\ arch = "x86_64"
    /\ pc = "post"
    /\ console' = Append(console, Line("Hypervisor ok!", ZeroWord))
    /\ shutdowns' = shutdowns + 1
    /\ pc' \in {"off", "after_out"}
    /\ UNCHANGED <<arch, ctx, exitPc, s2as, frames, entries, root, tlbStale, mapReq, loaded, cpuid_ecx, host, gk, xt>>

\* panic!("Hypervisor ok!") after the ACPI shutdown request
X86PanicAfterOut ==
    /\ arch = "x86_64"
    /\ pc = "after_out"
    /\ Panic(console, "Hypervisor ok!")
    /\ UNCHANGED <<arch, ctx, exitPc, s2as, frames, entries, root, shutdowns, tlbStale, mapReq, loaded, cpuid_ecx, host, gk, xt>>

\* ------------------------------------------------------- specification
Next ==
    \/ Riscv64Start
    \/ Aarch64Start
    \/ X86Start
    \/ RunGuest
    \/ RiscvEcall
    \/ RiscvGuestPageFault
    \/ RiscvUnhandledTrap
    \/ RiscvPostLoop
    \/ Aarch64Svc
    \/ Aarch64DataAbort
    \/ Aarch64UnhandledTrap
    \/ Aarch64PostLoop
    \/ X86Vmmcall
    \/ X86Npf
    \/ X86UnexpectedVmexit
    \/ X86PostLoop
    \/ X86PanicAfterOut

Spec == Init /\ [][Next]_vars

\* ------------------------------------------------------ the guest payload
\* The hypervisor's variables while the payload or the build driver is
\* looked at on its own.
HvParked ==
    /\ pc = "start"
    /\ ctx = DefaultCtx
    /\ exitPc = ZeroWord
    /\ s2as = {}
    /\ frames = MaxFrames
    /\ console = <<>>
    /\ entries = 0
    /\ root = "host"
    /\ shutdowns = 0
    /\ tlbStale = FALSE
    /\ mapReq = NoMapReq
    /\ loaded = "pending"
    /\ cpuid_ecx = 0
    /\ host = [svme |-> FALSE, hsave |-> FALSE, boxes |-> {},
               vmcb_pa |-> ZeroWord, host_vmcb_pa |-> ZeroWord, run |-> <<>>]

hvVars == <<arch, pc, ctx, exitPc, s2as, frames, console, entries, root, shutdowns,
            tlbStale, mapReq, loaded, cpuid_ecx, host>>

\* Arguments of svc_putchar / vmmcall_putchar: every u8.
Bytes == 0 .. 255

\* Arguments of print_hex32: u32 values, as words with bits 31..24 in the
\* middle limb. Every nibble value occurs at every position.
HexValues ==
    {Word(0, n * \H11, n * \H111111) : n \in 0 .. 15}
      \cup {Word(0, \H64, \H6c6670), Word(0, \Hde, \Hadbeef), Word(0, \H01, \H234567),
            Word(0, \H89, \Habcdef), Word(0, \H80, 0), Word(0, 0, \Ha)}

\* svc_putchar(c): svc #0 with x0 = c as u64, x8 = 1
SvcPutchar(c) == [x8 |-> Small(1), x0 |-> Small(c)]

\* (mutant: the character is shifted by 4 bits)
VmmcallPutchar_Shift4(c) == [rax |-> Small(1 + c * 16)]

\* vmmcall_putchar(c): vmmcall with rax = 1 | ((c as u64) << 8); the shifted
\* character has its low byte clear, so the OR is an addition
VmmcallPutchar(c) == [rax |-> Small(1 + c * 256)]

\* print_str's putchar of the payload's architecture
Putchar(c) == IF arch = "aarch64" THEN SvcPutchar(c) ELSE VmmcallPutchar(c)

\* nibble = ((val >> (i * 4)) & 0xF) as u8
Nibble(val, i) ==
    IF i < 6 THEN (val[3] \div (16 ^ i)) % 16
    ELSE (val[2] \div (16 ^ (i - 6))) % 16

\* (mutant: digits above 9 are printed in upper case)
HexChar_UpperCase(nibble) ==
    IF nibble < 10 THEN 48 + nibble ELSE 65 + nibble - 10

\* c = if nibble < 10 { b'0' + nibble } else { b'a' + nibble - 10 }
HexChar(nibble) ==
    IF nibble < 10 THEN 48 + nibble ELSE 97 + nibble - 10

PayloadInit ==
    /\ arch \in {"aarch64", "x86_64"}
    /\ HvParked
    /\ gk = GkIdle
    /\ xt = XtIdle

\* a call of svc_putchar / vmmcall_putchar with byte c
GkPutchar ==
    /\ gk.fn = "idle"
    /\ \E c \in Bytes :
         gk' = [gk EXCEPT !.fn = "putchar_done", !.byte = c,
                          !.calls = <<Putchar(c)>>]
    /\ UNCHANGED <<hvVars, xt>>

\* print_hex32(val) up to its loop: print_str("0x")
GkPrintHex32 ==
    /\ gk.fn = "idle"
    /\ \E v \in HexValues :
         gk' = [gk EXCEPT !.fn = "print_hex32", !.val = v, !.i = 8,
                          !.calls = <<Putchar(48), Putchar(120)>>]
    /\ UNCHANGED <<hvVars, xt>>

\* one iteration of `for i in (0..8).rev()`
GkHexDigit ==
    /\ gk.fn = "print_hex32"
    /\ gk.i > 0
    /\ LET i == gk.i - 1
           nibble == Nibble(gk.val, i)
       IN  gk' = [gk EXCEPT !.i = i,
                            !.calls = Append(gk.calls, Putchar(HexChar(nibble)))]
    /\ UNCHANGED <<hvVars, xt>>

\* the loop is over: print_hex32 returns
GkPrintHex32Return ==
    /\ gk.fn = "print_hex32"
    /\ gk.i = 0
    /\ gk' = [gk EXCEPT !.fn = "hex_done"]
    /\ UNCHANGED <<hvVars, xt>>

PayloadNext ==
    \/ GkPutchar
    \/ GkPrintHex32
    \/ GkHexDigit
    \/ GkPrintHex32Return

PayloadSpec == PayloadInit /\ [][PayloadNext]_vars

\* ------------------------------------------------------ the build driver
\* --arch values: the three match arms of arch_info and two others.
XtArchs == {"riscv64", "aarch64", "x86_64", "mips64", "arm"}

XtSupported == {"riscv64", "aarch64", "x86_64"}

\* What ExitStatus::code() of a child that did not succeed can be: a
\* non-zero exit code, or None (-1 here) for a child ended by a signal.
ChildFailures == {1, 2, 101, 0 - 1}

\* status.code().unwrap_or(1)
CodeOr1(code) == IF code = 0 - 1 THEN 1 ELSE code

\* exit status of a Rust process that panics (unwrap / expect)
PanicStatus == 100 + 1

\* process::exit(code) after eprintln!(err), or a panic with message err,
\* inside `step`
XtExit(step, code, err) ==
    xt' = [xt EXCEPT !.at = "exit", !.status = code, !.failed = step, !.err = err]

\* `step` returns to main, which goes on at `next`
XtDone(step, next) ==
    xt' = [xt EXCEPT !.at = next, !.done = Append(xt.done, step)]

XtaskInit ==
    /\ arch = "riscv64"
    /\ HvParked
    /\ gk = GkIdle
    /\ \E c \in {"run", "build"} : \E a \in XtArchs :
         xt = [XtIdle EXCEPT !.cmd = c, !.arch = a, !.at = "arch_info"]

\* arch_info(arch)
XtArchInfo ==
    /\ xt.at = "arch_info"
    /\ IF xt.arch \in XtSupported
       THEN XtDone("arch_info", "install_config")
       ELSE XtExit("arch_info", 1, "unsupported architecture")
    /\ UNCHANGED <<hvVars, gk>>

\* install_config(&root, arch): the config file may be missing, the copy
\* may fail
XtInstallConfig ==
    /\ xt.at = "install_config"
    /\ \/ XtDone("install_config", "build_payload")
       \/ XtExit("install_config", 1, "config file not found")
       \/ XtExit("install_config", 1, "failed to copy config")
    /\ UNCHANGED <<hvVars, gk>>

\* build_payload(&root, &info): cargo build, then rust-objcopy
XtBuildPayload ==
    /\ xt.at = "build_payload"
    /\ \/ XtDone("build_payload",
                  IF xt.cmd = "run" THEN "create_fat_disk_image" ELSE "do_build")
       \/ XtExit("build_payload", 1, "failed to run cargo build for payload")
       \/ \E code \in ChildFailures :
            XtExit("build_payload", CodeOr1(code), "payload compilation failed")
       \/ XtExit("build_payload", PanicStatus, "failed to execute rust-objcopy for payload")
       \/ \E code \in ChildFailures :
            XtExit("build_payload", CodeOr1(code), "rust-objcopy for payload failed")
    /\ UNCHANGED <<hvVars, gk>>

\* create_fat_disk_image(&disk, &payload_bin): process::exit(1) on the
\* handled errors, a panic on the unwrap()s
XtCreateFatDiskImage ==
    /\ xt.at = "create_fat_disk_image"
    /\ \/ XtDone("create_fat_disk_image",
                  IF xt.arch = "riscv64" THEN "create_pflash_image" ELSE "do_build")
       \/ \E err \in {"failed to read payload", "failed to create disk image",
                       "failed to format FAT32", "failed to open FAT filesystem",
                       "failed to create /sbin", "failed to create /sbin/gkernel"} :
            XtExit("create_fat_disk_image", 1, err)
       \/ XtExit("create_fat_disk_image", PanicStatus, "unwrap")
    /\ UNCHANGED <<hvVars, gk>>

\* create_pflash_image(&root, arch)
XtCreatePflashImage ==
    /\ xt.at = "create_pflash_image"
    /\ \/ XtDone("create_pflash_image", "do_build")
       \/ XtExit("create_pflash_image", 1, "failed to write pflash image")
    /\ UNCHANGED <<hvVars, gk>>

\* (mutant: a failed build of the hypervisor is not looked at)
XtDoBuild_IgnoresFailure ==
    /\ xt.at = "do_build"
    /\ LET next == IF xt.cmd = "build" THEN "exit"
                   ELSE IF xt.arch # "x86_64" THEN "do_objcopy"
                   ELSE "do_run_qemu"
       IN  \/ XtDone("do_build", next)
           \/ XtExit("do_build", PanicStatus, "failed to execute cargo build")
           \/ \E code \in ChildFailures : xt' = [xt EXCEPT !.at = next]
    /\ UNCHANGED <<hvVars, gk>>

\* do_build(&root, &info); in `xtask build` main returns after it
XtDoBuild ==
    /\ xt.at = "do_build"
    /\ LET next == IF xt.cmd = "build" THEN "exit"
                   ELSE IF xt.arch # "x86_64" THEN "do_objcopy"
                   ELSE "do_run_qemu"
       IN  \/ XtDone("do_build", next)
           \/ XtExit("do_build", PanicStatus, "failed to execute cargo build")
           \/ \E code \in ChildFailures :
                XtExit("do_build", CodeOr1(code), "cargo build failed")
    /\ UNCHANGED <<hvVars, gk>>

\* do_objcopy(&elf, &bin, info.objcopy_arch)
XtDoObjcopy ==
    /\ xt.at = "do_objcopy"
    /\ \/ XtDone("do_objcopy", "do_run_qemu")
       \/ XtExit("do_objcopy", PanicStatus, "failed to execute rust-objcopy")
       \/ \E code \in ChildFailures :
            XtExit("do_objcopy", CodeOr1(code), "rust-objcopy failed")
    /\ UNCHANGED <<hvVars, gk>>

\* do_run_qemu(..): QEMU is launched; the process exits with 1 if it could
\* not be started and with QEMU's code if it failed, else main returns
XtDoRunQemu ==
    /\ xt.at = "do_run_qemu"
    /\ \/ XtDone("do_run_qemu", "exit")
       \/ XtExit("do_run_qemu", 1, "failed to run qemu")
       \/ \E code \in ChildFailures :
            XtExit("do_run_qemu", CodeOr1(code), "qemu failed")
    /\ UNCHANGED <<hvVars, gk>>

XtaskNext ==
    \/ XtArchInfo
    \/ XtInstallConfig
    \/ XtBuildPayload
    \/ XtCreateFatDiskImage
    \/ XtCreatePflashImage
    \/ XtDoBuild
    \/ XtDoObjcopy
    \/ XtDoRunQemu

XtaskSpec == XtaskInit /\ [][XtaskNext]_vars

\* ------------------------------------------------- guest hypercall ABI
\* aarch64 payload: svc_putchar puts 1 in x8 and the character in x0
Aarch64PutcharCall(c) == Ec(c.esr) = \H15 /\ c.x8 = Small(1)

\* aarch64 payload: svc_exit puts 2 in x8 and leaves x0 as it is
Aarch64ExitCall(c) == Ec(c.esr) = \H15 /\ c.x8 = Small(2)

\* x86_64 payload: vmmcall_putchar passes rax = 1 | (c << 8)
X86PutcharCall(c) == c.exit_code = VMEXIT_VMMCALL /\ c.rax[3] % 256 = 1

\* the character of an x86_64 putchar: (rax >> 8) & 0xFF
X86PutcharArg(c) == Small((c.rax[3] \div 256) % 256)

\* x86_64 payload: vmmcall_exit passes rax = 0x84000008
X86ExitCall(c) == c.exit_code = VMEXIT_VMMCALL /\ c.rax = PSCI_SYSTEM_OFF

\* riscv64: SBI reset (legacy shutdown or SRST) and SBI legacy putchar
RiscvExitCall(c) == c.scause.exception /\ c.scause.code = 10 /\ c.a7 \in SbiResetExt
RiscvPutcharCall(c) == c.scause.exception /\ c.scause.code = 10 /\ c.a7 = Small(1)

\* The exit held in the context is the guest's shutdown hypercall.
IsExitCall(c) ==
    CASE arch = "riscv64" -> RiscvExitCall(c)
      [] arch = "aarch64" -> Aarch64ExitCall(c)
      [] arch = "x86_64"  -> X86ExitCall(c)

\* The exit held in the context is a putchar hypercall.
IsPutcharCall(c) ==
    CASE arch = "riscv64" -> RiscvPutcharCall(c)
      [] arch = "aarch64" -> Aarch64PutcharCall(c)
      [] arch = "x86_64"  -> X86PutcharCall(c)

\* The guest-physical address a lies inside the address-space region.
InRegion(a) == ContainsRange(a, Small(1))

\* The host has dispatched the last exit and is about to call _run_guest again.
ReEntering == pc = "enter" /\ entries > 0

\* ---------------------------------------------------------------- claims

\* C1: a page-fault exit whose guest-physical address lies outside the
\* address-space region is fatal: the host aborts and does not go back to
\* _run_guest.
C1_OutOfRegionFaultIsFatal ==
    [][(pc = "exited" /\ IsPageFaultExit(ctx) /\ ~InRegion(FaultAddr(ctx)))
         => pc' = "panicked"]_vars

\* C2: on AArch64 an SVC exit with x8 = 2 breaks the run loop whatever x0
\* holds, and an SVC exit with x8 = 1 writes the byte in x0 to the console.
C2_Aarch64FunctionIdFromX8 ==
    [][(arch = "aarch64" /\ pc = "exited" /\ Ec(ctx.esr) = \H15)
         => /\ Aarch64ExitCall(ctx) => pc' = "post"
            /\ Aarch64PutcharCall(ctx) =>
                 /\ console' = Append(console, Byte(ctx.x0))
                 /\ pc' = "enter"]_vars

\* C3: for each putchar hypercall (AArch64 and x86_64) the host writes the
\* argument byte, and nothing else, to the console.
C3_PutcharEmitsByte ==
    [][(pc = "exited" /\ arch \in {"aarch64", "x86_64"} /\ IsPutcharCall(ctx))
         => console' = Append(console,
                Byte(IF arch = "aarch64" THEN ctx.x0 ELSE X86PutcharArg(ctx)))]_vars

\* C4: once the guest has issued the shutdown hypercall the host leaves the
\* loop without entering the guest again, and a platform that was shut down
\* was asked to exactly once.
C4_ShutdownEndsLoop ==
    /\ ~(ReEntering /\ IsExitCall(ctx))
    /\ shutdowns <= 1
    /\ pc = "off" => shutdowns = 1

\* C5: dispatching a page-fault exit leaves the guest PC and the guest
\* general-purpose registers of the context as they were at the exit.
C5_PageFaultKeepsContext ==
    [][(pc = "exited" /\ IsPageFaultExit(ctx) /\ pc' = "enter")
         => /\ GuestPc(ctx') = GuestPc(ctx)
            /\ GuestPc(ctx') = exitPc'
            /\ GuestGprs(ctx') = GuestGprs(ctx)]_vars

C5_Witness ==
    /\ ReEntering
    /\ IsPageFaultExit(ctx)
    /\ PageOf(FaultAddr(ctx)) \in MappedPages(s2as)
    /\ GuestPc(ctx) = exitPc

\* C6: when the guest is re-entered after a hypercall that is not the
\* shutdown hypercall, its PC is the PC of the exit plus the length of the
\* hypercall instruction (4 / 4 / 3), modulo 2^64.
C6_HypercallAdvancesPc ==
    (ReEntering /\ IsHypercallExit(ctx) /\ ~IsExitCall(ctx))
      => GuestPc(ctx) = WordAdd(exitPc, IF arch = "x86_64" THEN 3 ELSE 4)

C6_Witness ==
    /\ ReEntering
    /\ IsHypercallExit(ctx)
    /\ ~IsExitCall(ctx)
    /\ exitPc = VM_ENTRY

\* C7: a hypercall that is neither putchar nor exit is recovered locally:
\* the host advances the guest PC and re-enters the guest, it does not abort
\* and does not leave the loop.
C7_UnknownHypercallRecovered ==
    [][(pc = "exited" /\ IsHypercallExit(ctx)
          /\ ~IsPutcharCall(ctx) /\ ~IsExitCall(ctx))
         => /\ pc' = "enter"
            /\ GuestPc(ctx') = WordAdd(GuestPc(ctx), IF arch = "x86_64" THEN 3 ELSE 4)]_vars

\* C8: the guest is never re-entered after a page-fault exit with the
\* faulting page still unmapped (a failed mapping request is fatal).
C8_MappingFailureIsFatal ==
    ~(/\ ReEntering
      /\ IsPageFaultExit(ctx)
      /\ PageOf(FaultAddr(ctx)) \notin MappedPages(s2as))

\* C9: after an exit that is neither a hypercall nor a page fault the host
\* aborts: it does not re-enter the guest and does not take the
\* normal-completion path.
C9_UnhandledExitAborts ==
    (entries > 0 /\ ~IsHypercallExit(ctx) /\ ~IsPageFaultExit(ctx))
      => pc \in {"exited", "panicked"}

\* Console lines the page-fault handlers print, one per page-fault exit.
PageFaultMsgs ==
    {"VmExit: NestedPageFault addr=", "VmExit: DataAbort addr=", "VmExit: NPF addr="}

PageFaultLines ==
    {i \in 1 .. Len(console) :
       console[i].kind = "println" /\ console[i].msg \in PageFaultMsgs}

\* The distinct guest pages those exits were for.
FaultedPages == {PageOf(console[i].val) : i \in PageFaultLines}

\* The loop was left through the shutdown branch.
LoopEndedByShutdown ==
    \E i \in 1 .. Len(console) : console[i].msg = "Shutdown vm normally!"

\* C10: in a run that ended in shutdown there was one page-fault exit per
\* distinct unmapped page the guest touched (none faulted twice), and none
\* for a page that was mapped from the start.
C10_OneFaultPerPage ==
    LoopEndedByShutdown =>
      /\ Cardinality(PageFaultLines) = Cardinality(FaultedPages)
      /\ FaultedPages \cap LoaderPages = {}

C10_Witness ==
    /\ LoopEndedByShutdown
    /\ Cardinality(PageFaultLines) = 2
    /\ Cardinality(FaultedPages) = 2

\* A page the fault handler of the run loop has mapped.
HandlerMapped(e) == e \in s2as /\ e \notin KernelMappings /\ e.page \notin LoaderPages

\* C11: on RISC-V and AArch64 the guest is never entered while a change of
\* the second-stage address space, or the installation of its root, has not
\* been followed by the shootdown (hfence.gvma / tlbi vmalle1is; dsb; isb).
C11_ShootdownBeforeEntry ==
    (arch \in {"riscv64", "aarch64"} /\ pc = "enter") => ~tlbStale

C11_Witness ==
    /\ arch \in {"riscv64", "aarch64"}
    /\ ReEntering
    /\ root = "guest"
    /\ \E e \in s2as : HandlerMapped(e) /\ e.page = mapReq.start
    /\ ~tlbStale

\* C12: every mapping request of a page-fault handler starts at a multiple
\* of 4096, is 4096 bytes long and covers the page that holds the faulting
\* guest-physical address.
C12_MapRequestsPageAligned ==
    (ReEntering /\ IsPageFaultExit(ctx))
      => /\ IsAligned4K(mapReq.start)
         /\ mapReq.size = 4096
         /\ mapReq.start = PageOf(FaultAddr(ctx))

\* C13 (as stated): on RISC-V every page mapped in the second-stage address
\* space is backed by the host-physical page of the same address.
C13_EveryMappedPageIsIdentity ==
    arch = "riscv64" => \A e \in s2as : e.hpa = e.page

\* C13 (amended): on RISC-V every page the guest-page-fault handler maps is
\* backed by the host-physical page of the same address.
C13_HandlerMappingsAreIdentity ==
    arch = "riscv64" => \A e \in s2as : HandlerMapped(e) => e.hpa = e.page

C13_Witness ==
    /\ arch = "riscv64"
    /\ \E e \in s2as : HandlerMapped(e) /\ e.page = Word(0, \H22, 0)

\* C14: if load_vm_image fails the host panics at start-up and never calls
\* _run_guest; the guest is entered only after load_vm_image returned Ok.
C14_LoaderErrorAbortsBeforeEntry ==
    /\ loaded = "err" => (pc = "panicked" /\ entries = 0 /\ root = "host")
    /\ (pc = "enter" \/ entries > 0) => loaded = "ok"

C14_Witness ==
    /\ loaded = "err"
    /\ pc = "panicked"
    /\ console[Len(console)] = PanicLine("Cannot load app!")

\* C15: on x86_64, when bit 2 of CPUID 0x8000_0001 ECX is clear the host
\* panics with EFER.SVME not written, VM_HSAVE_PA not programmed and the
\* guest never entered.
C15_NoSvmAbortsBeforeEnable ==
    (arch = "x86_64" /\ (cpuid_ecx \div 4) % 2 = 0)
      => /\ ~host.svme
         /\ ~host.hsave
         /\ entries = 0
         /\ pc \in {"start", "panicked"}

C15_Witness ==
    /\ arch = "x86_64"
    /\ cpuid_ecx = 2
    /\ pc = "panicked"
    /\ console[Len(console)] = PanicLine("CPU does not support AMD SVM!")

\* The host is about to call _run_guest for the first time.
FirstEntry == pc = "enter" /\ entries = 0

\* Guest-physical address of the next instruction fetch: the PC, on x86_64
\* relative to CS.base.
FetchAddr(c) ==
    IF arch = "x86_64" THEN WordSum(c.cs_base, c.rip) ELSE GuestPc(c)

\* C16: at the first _run_guest the context holds the entry state of its
\* architecture and the first instruction is fetched at VM_ENTRY.
C16_EntryState ==
    FirstEntry =>
      /\ FetchAddr(ctx) = VM_ENTRY
      /\ CASE arch = "riscv64" ->
                /\ ctx.sepc = Word(0, \H80, \H200000)
                /\ "spv" \in ctx.hstatus
                /\ "spp" \in ctx.sstatus
           [] arch = "aarch64" ->
                /\ ctx.elr = Word(0, \H40, \H200000)
                /\ ctx.spsr = \H3C0
           [] arch = "x86_64" ->
                /\ ctx.cs_base = Word(0, 0, \H10000)
                /\ ctx.rip = ZeroWord
                /\ ctx.rflags = 2
                /\ "SVME" \in ctx.efer
                /\ ctx.cr0 = \H10
                /\ Small(ctx.cs_selector * 16) = ctx.cs_base

C16_Witness ==
    /\ FirstEntry
    /\ arch = "x86_64"
    /\ ctx.cs_base = VM_ENTRY
    /\ loaded = "ok"

\* C17: on AArch64 the platform shutdown is issued only with TTBR0_EL1 back
\* at the value it had before the guest root was installed and the TLB
\* shootdown done, whichever way the run loop was left.
C17_Ttbr0RestoredBeforeShutdown ==
    [][(arch = "aarch64" /\ shutdowns' > shutdowns)
         => /\ pc = "post"
            /\ root = "guest"
            /\ root' = "host"
            /\ ~tlbStale']_vars

C17_Witness ==
    /\ arch = "aarch64"
    /\ pc = "off"
    /\ shutdowns = 1
    /\ root = "host"
    /\ Ec(ctx.esr) \notin {\H15, \H24, \H25}

\* C18: no step removes a mapping or changes the frame or the flags behind
\* a page that is mapped: the set of mappings only grows, one entry a page.
C18_MappingsOnlyGrow ==
    [][/\ s2as \subseteq s2as'
       /\ \A e \in s2as : \A f \in s2as' : f.page = e.page => f = e]_vars

C18_Witness ==
    /\ arch = "x86_64"
    /\ LoaderPages \subseteq MappedPages(s2as)
    /\ Cardinality({e \in s2as : HandlerMapped(e)}) = 2

\* C19: the dispatch of a page-fault exit for a guest page that is already
\* mapped leaves the second-stage address space as it was (same frame and
\* flags behind the page) and takes no frame from the allocator.
C19_MappedPageRequestIsNoOp ==
    [][(pc = "exited" /\ IsPageFaultExit(ctx)
          /\ PageOf(FaultAddr(ctx)) \in MappedPages(s2as))
         => (s2as' = s2as /\ frames' = frames)]_vars

C19_Witness ==
    /\ ReEntering
    /\ IsPageFaultExit(ctx)
    /\ ~IsTranslationFault(ctx)
    /\ mapReq.start = PageOf(FaultAddr(ctx))
    /\ mapReq.start \in LoaderPages
    /\ \E e \in s2as : e.page = mapReq.start /\ e.hpa = HostFrame(MaxFrames)

\* The three branches of the exit dispatch of the run loops.
HypercallBranch == RiscvEcall \/ Aarch64Svc \/ X86Vmmcall

PageFaultBranch == RiscvGuestPageFault \/ Aarch64DataAbort \/ X86Npf

FatalBranch == RiscvUnhandledTrap \/ Aarch64UnhandledTrap \/ X86UnexpectedVmexit

\* The decoder table: the class of an exit by its raw exit registers.
ExitClass(c) ==
    CASE arch = "riscv64" ->
           IF c.scause.exception /\ c.scause.code = 10 THEN "hypercall"
           ELSE IF c.scause.exception /\ c.scause.code \in {21, 23} THEN "pagefault"
           ELSE "fatal"
      [] arch = "aarch64" ->
           LET ec == (c.esr[2] \div 4) % 64 IN
           IF ec = \H15 THEN "hypercall"
           ELSE IF ec \in {\H24, \H25} THEN "pagefault"
           ELSE "fatal"
      [] arch = "x86_64" ->
           IF c.exit_code = \H81 THEN "hypercall"
           ELSE IF c.exit_code = \H400 THEN "pagefault"
           ELSE "fatal"

\* The decoder table: the guest-physical address of a page-fault exit.
ExitGpa(c) ==
    CASE arch = "riscv64" -> WordAdd(Shl2(c.htval), c.stval[3] % 4)
      [] arch = "aarch64" -> <<c.far[1], c.far[2], c.far[3] - (c.far[3] % 4096)>>
      [] arch = "x86_64"  ->
           <<c.exit_info2[1], c.exit_info2[2], c.exit_info2[3] - (c.exit_info2[3] % 4096)>>

\* C20: the dispatch takes exactly the branch the decoder table gives for
\* the exit (hypercall, page fault, fatal), and a page-fault exit is handled
\* for the guest-physical address the table gives.
C20_ExitClassification ==
    /\ pc = "exited" =>
         /\ (ENABLED HypercallBranch) <=> (ExitClass(ctx) = "hypercall")
         /\ (ENABLED PageFaultBranch) <=> (ExitClass(ctx) = "pagefault")
         /\ (ENABLED FatalBranch) <=> (ExitClass(ctx) = "fatal")
    /\ (ReEntering /\ ExitClass(ctx) = "pagefault") => mapReq.start = ExitGpa(ctx)

C20_Witness ==
    /\ ReEntering
    /\ arch = "riscv64"
    /\ ExitClass(ctx) = "pagefault"
    /\ ctx.scause.code = 23
    /\ mapReq.start = Word(0, \H22, 4)

\* C21: the dispatch of the shutdown hypercall breaks the loop and leaves
\* the guest PC of the context as it was at the exit.
C21_ShutdownKeepsPc ==
    [][(pc = "exited" /\ IsHypercallExit(ctx) /\ IsExitCall(ctx))
         => /\ pc' = "post"
            /\ GuestPc(ctx') = GuestPc(ctx)]_vars

\* C22: at the first _run_guest the pages mapped in the second-stage address
\* space are exactly the payload pages the loader wrote at VM_ENTRY.
C22_InitialMappingsArePayload ==
    FirstEntry => MappedPages(s2as) = LoaderPages

\* C23: on x86_64, from the first VMRUN on, the host-save page, the host
\* VMCB, the IOPM, the MSRPM and the guest VMCB are allocated, each at the
\* address it was given at start-up, and every _run_guest call was passed
\* the same two VMCB addresses.
C23_SvmPagesOutliveEntries ==
    (arch = "x86_64" /\ (pc = "enter" \/ entries > 0))
      => /\ host.hsave
         /\ Boxed({"host_save", "host_vmcb", "iopm", "msrpm", "vmcb"})
              \subseteq host.boxes
         /\ \A a \in host.boxes : \A b \in host.boxes : a.name = b.name => a = b
         /\ entries > 0 => host.run = <<BoxPa("vmcb"), BoxPa("host_vmcb")>>

C23_Witness ==
    /\ arch = "x86_64"
    /\ pc = "off"
    /\ entries = MaxEntries
    /\ host.run = <<BoxPa("vmcb"), BoxPa("host_vmcb")>>
    /\ Cardinality(host.boxes) = 5

\* main has printed "Hypervisor ok!".
ReportedOk ==
    \E i \in 1 .. Len(console) :
       console[i].kind = "println" /\ console[i].msg = "Hypervisor ok!"

\* C25: on AArch64 and x86_64 "Hypervisor ok!" is reported only when the
\* last exit was the guest's shutdown hypercall, never after an unhandled
\* trap or an unexpected VMEXIT.
C25_OkOnlyAfterShutdown ==
    (arch \in {"aarch64", "x86_64"} /\ ReportedOk)
      => (IsHypercallExit(ctx) /\ IsExitCall(ctx))

\* C26: the dispatch of a hypercall exit breaks the loop only if the call
\* is the exit request of the ABI; a putchar call never breaks it.
C26_OnlyExitBreaksLoop ==
    [][(pc = "exited" /\ IsHypercallExit(ctx) /\ pc' = "post")
         => (IsExitCall(ctx) /\ ~IsPutcharCall(ctx))]_vars

\* The byte a putchar hypercall carries under the ABI of the payload's
\* architecture, -1 if the call is not a putchar.
PutcharByte(call) ==
    IF arch = "aarch64"
    THEN IF call.x8 = Small(1) THEN call.x0[3] ELSE 0 - 1
    ELSE IF call.rax[3] % 256 = 1 THEN (call.rax[3] \div 256) % 256 ELSE 0 - 1

\* C24: for every byte c the rax value of the x86_64 payload's putchar,
\* 1 | (c << 8), decodes to function id rax & 0xFF = 1 and argument
\* (rax >> 8) & 0xFF = c.
C24_PutcharRoundTrip ==
    (arch = "x86_64" /\ gk.fn = "putchar_done")
      => LET c == [exit_code |-> VMEXIT_VMMCALL, rax |-> gk.calls[1].rax] IN
         /\ c.rax[3] % 256 = 1
         /\ X86PutcharCall(c)
         /\ X86PutcharArg(c) = Small(gk.byte)

C24_Witness ==
    /\ arch = "x86_64"
    /\ gk.fn = "putchar_done"
    /\ gk.byte = 255
    /\ gk.calls = <<[rax |-> Small(\Hff01)]>>

\* Value of a lower-case hexadecimal digit character, -1 for another byte.
HexDigitValue(ch) ==
    IF ch \in 48 .. 57 THEN ch - 48
    ELSE IF ch \in 97 .. 102 THEN ch - 97 + 10
    ELSE 0 - 1

\* C28: print_hex32(v) issues exactly 10 putchar hypercalls: '0', 'x' and
\* the 8 lower-case hexadecimal digits of v, most significant first.
C28_PrintHex32 ==
    gk.fn = "hex_done" =>
      /\ Len(gk.calls) = 10
      /\ PutcharByte(gk.calls[1]) = 48
      /\ PutcharByte(gk.calls[2]) = 120
      /\ LET d == [k \in 1 .. 8 |-> HexDigitValue(PutcharByte(gk.calls[2 + k]))] IN
           /\ \A k \in 1 .. 8 : d[k] \in 0 .. 15
           /\ gk.val[1] = 0
           /\ gk.val[2] = d[1] * 16 + d[2]
           /\ gk.val[3] = ((((d[3] * 16 + d[4]) * 16 + d[5]) * 16 + d[6]) * 16 + d[7]) * 16 + d[8]

C28_Witness ==
    /\ gk.fn = "hex_done"
    /\ arch = "aarch64"
    /\ gk.val = Word(0, \Hde, \Hadbeef)
    /\ PutcharByte(gk.calls[3]) = 100
    /\ PutcharByte(gk.calls[10]) = 102

\* The steps of `xtask run` that come before QEMU, in order.
RunSteps(a) ==
    <<"arch_info", "install_config", "build_payload", "create_fat_disk_image">>
      \o (IF a = "riscv64" THEN <<"create_pflash_image">> ELSE <<>>)
      \o <<"do_build">>
      \o (IF a # "x86_64" THEN <<"do_objcopy">> ELSE <<>>)

IsPrefix(p, q) == Len(p) <= Len(q) /\ SubSeq(q, 1, Len(p)) = p

\* do_run_qemu has been reached: QEMU is about to be, or has been, launched.
QemuReached ==
    \/ xt.at = "do_run_qemu"
    \/ xt.failed = "do_run_qemu"
    \/ (Len(xt.done) > 0 /\ xt.done[Len(xt.done)] = "do_run_qemu")

XtRunOrdered ==
    xt.cmd = "run" =>
      /\ IsPrefix(xt.done, RunSteps(xt.arch) \o <<"do_run_qemu">>)
      /\ QemuReached =>
           /\ xt.arch \in XtSupported
           /\ IsPrefix(RunSteps(xt.arch), xt.done)
      /\ xt.failed # "none" => (xt.at = "exit" /\ xt.status # 0)
      /\ xt.arch \notin XtSupported =>
           /\ xt.done = <<>>
           /\ xt.at = "exit" => (xt.failed = "arch_info" /\ xt.status # 0)

\* C27: in `xtask run` the steps succeed in the order arch_info,
\* install_config, build_payload, create_fat_disk_image, create_pflash_image
\* (riscv64 only), do_build, do_objcopy (not on x86_64) before QEMU is
\* launched; an unsupported architecture or a failing step ends the process
\* with a non-zero status, and no step runs after the process has exited.
C27_RunStepOrder ==
    [][/\ XtRunOrdered'
       /\ xt.at = "exit" => xt' = xt]_vars

C27_Witness ==
    /\ xt.cmd = "run"
    /\ xt.arch = "riscv64"
    /\ xt.at = "exit"
    /\ xt.status = 0
    /\ xt.done = RunSteps("riscv64") \o <<"do_run_qemu">>

====
